---- MODULE Spec2Model ----
(***************************************************************************)
(* State-machine model of the randos battle arena: the round/phase machine *)
(* of BattleArenaGame and GameScene (game.ts), the Player and Enemy        *)
(* combatants, the item catalog and the Shop, and the command handlers of  *)
(* GameController (main.ts).                                               *)
(*                                                                         *)
(* Numbers: gold is the integer of the source.  Health and damage are      *)
(* kept in hundredths of a health point (HP(150) is 150 health), because   *)
(* regeneration heals maxHealth * healthRegenPercent, a fraction.  Percent *)
(* accumulators (0..1 in the source) are kept in hundredths.  Time is      *)
(* counted in milliseconds and advances in steps of TickMs.                *)
(***************************************************************************)
EXTENDS Integers, Sequences, FiniteSets, TLC

VARIABLES
    game,              \* GameController.game is non-null
    playerCount,       \* GameScene.playerCount
    sceneBooted,       \* the engine has started the scene: scene.time/scene.scene exist, create() has run
    scenePaused,       \* the scene is paused (scene.pause / scene.resume)
    currentGameState,  \* BattleArenaGame.currentGameState
    currentRound,      \* BattleArenaGame.currentRound
    roundTimer,        \* BattleArenaGame.roundTimer: NoTimer or [paused, elapsed, pending]
    shopInstance,      \* BattleArenaGame.shopInstance: NoShop or Shop.availableItems
    players,           \* GameScene.players: sequence of Player records
    enemies,           \* GameScene.enemies: sequence of Enemy records
    gameEnded,         \* GameScene.gameEnded
    roundOverFlag,     \* GameScene.roundOverFlag
    winners,           \* arguments of the GameController.onGameEnd calls, in order
    playingMs,         \* time spent in the current stay in Playing (observer)
    collisions,        \* number of damage-resolving overlaps so far (observer, bounded)
    purchases,         \* number of successful purchases so far (observer, bounded)
    calls,             \* number of direct takeDamage/heal calls so far (observer, bounded)
    lastOp,            \* the last handler that ran, its arguments and result (observer)
    controllerPlayerCount  \* GameController.playerCount: the count the start button last read

vars == <<game, playerCount, sceneBooted, scenePaused, currentGameState, currentRound,
          roundTimer, shopInstance, players, enemies, gameEnded, roundOverFlag, winners,
          playingMs, collisions, purchases, calls, lastOp, controllerPlayerCount>>

----------------------------------------------------------------------------
(* Bounds of the model *)

MaxCollisions == 11        \* damage-resolving overlaps explored per game
MaxPurchases == 1          \* successful purchases explored per game
MaxSame == 3               \* purchases of one and the same item by one customer
MaxCalls == 3              \* direct takeDamage/heal calls explored per player
MaxRounds == 2             \* rounds explored per game
TickMs == 15000            \* milliseconds per step of the clock

(* Program constants *)

MinPlayers == 2
DefaultPlayerCount == 2
MaxPlayers == 8
RoundDuration == 30000
INITIAL_HEALTH == 150
INITIAL_GOLD == 10
BASE_MOVE_SPEED == 50
BASE_ATTACK_DAMAGE == 15
BASE_DEFENSE == 0
BASE_GOLD_PER_HIT == 1
FIGHT_OR_FLIGHT_MAX == 10

HP(n) == n * 100

Min(a, b) == IF a < b THEN a ELSE b
Max(a, b) == IF a > b THEN a ELSE b

Playing == "Playing"
Shop == "Shop"
RoundOver == "RoundOver"
GameOver == "GameOver"
GameStates == {Playing, Shop, RoundOver, GameOver}

NoTimer == [exists |-> FALSE, pending |-> FALSE, paused |-> FALSE, elapsed |-> 0, scheduled |-> 0]
NoShop == <<>>
Draw == "No one (Draw)"

----------------------------------------------------------------------------
(* Player *)

(* the id the scene gives the i-th player: `Player ${i + 1}` for i from 0 *)
PlayerId(i) ==
    <<"Player 1", "Player 2", "Player 3", "Player 4",
      "Player 5", "Player 6", "Player 7", "Player 8">>[i]

NewPlayer(i) ==
    [ id |-> PlayerId(i),
      health |-> HP(INITIAL_HEALTH),
      maxHealth |-> HP(INITIAL_HEALTH),
      gold |-> INITIAL_GOLD,
      isAlive |-> TRUE,
      justDied |-> FALSE,
      isInvulnerable |-> FALSE,
      inventory |-> <<>>,
      moveSpeed |-> BASE_MOVE_SPEED,
      attackDamage |-> HP(BASE_ATTACK_DAMAGE),
      defense |-> HP(BASE_DEFENSE),
      goldPerHit |-> BASE_GOLD_PER_HIT,
      doubleGoldChance |-> 0,
      lifestealPercent |-> 0,
      healthRegenPercent |-> 0,
      fightOrFlight |-> 0 ]

die(p) == [p EXCEPT !.isAlive = FALSE, !.justDied = TRUE]

(* takeDamage that does not look whether the player is alive *)
takeDamageOfTheDead(p, amount) ==
    LET actualDamage == Max(0, amount - p.defense)
        h == p.health - actualDamage
    IN IF h <= 0 THEN die([p EXCEPT !.health = 0])
       ELSE [p EXCEPT !.health = h]

(* takeDamage that takes the whole amount, whatever the defense *)
takeDamageUndefended(p, amount) ==
    IF ~p.isAlive THEN p
    ELSE LET h == p.health - Max(0, amount)
         IN IF h <= 0 THEN die([p EXCEPT !.health = 0])
            ELSE [p EXCEPT !.health = h]

takeDamage(p, amount) ==
    IF ~p.isAlive THEN p
    ELSE LET actualDamage == Max(0, amount - p.defense)
             h == p.health - actualDamage
         IN IF h <= 0 THEN die([p EXCEPT !.health = 0])
            ELSE [p EXCEPT !.health = h]

heal(p, amount) == [p EXCEPT !.health = Min(p.maxHealth, p.health + amount)]

(* Player.dealDamage(target, amount): the player after the call, healed by
   its share of the damage that gets past the defense of the target; no
   handler of a collision calls it *)
actualDamageDealt(target, amount) == Max(0, amount - target.defense)

dealDamage(p, target, amount) ==
    IF p.lifestealPercent > 0 /\ p.isAlive
    THEN heal(p, (actualDamageDealt(target, amount) * p.lifestealPercent) \div 100)
    ELSE p

getGold(p) == p.gold

addGold(p, amount) == [p EXCEPT !.gold = p.gold + amount]

(* stolenAmount that takes the whole amount, whatever the victim holds *)
stolenAmountInFull(p, amount) == amount

stolenAmount(p, amount) == Min(amount, p.gold)

stealGold(p, amount) == [p EXCEPT !.gold = p.gold - stolenAmount(p, amount)]

increaseDamage(p, amount) == [p EXCEPT !.attackDamage = p.attackDamage + amount]

increaseDefense(p, amount) == [p EXCEPT !.defense = p.defense + amount]

(* increaseSpeed that sets the speed instead of adding to it *)
increaseSpeedFromBase(p, amount) == [p EXCEPT !.moveSpeed = BASE_MOVE_SPEED + amount]

increaseSpeed(p, amount) == [p EXCEPT !.moveSpeed = p.moveSpeed + amount]

increaseMaxHealth(p, amount) ==
    [p EXCEPT !.maxHealth = p.maxHealth + amount, !.health = p.health + amount]

(* adjustFightOrFlight that adds the amount and does not clamp the sum *)
adjustFightOrFlightUnclamped(p, amount) ==
    [p EXCEPT !.fightOrFlight = p.fightOrFlight + amount]

adjustFightOrFlight(p, amount) ==
    [p EXCEPT !.fightOrFlight =
        Max(-FIGHT_OR_FLIGHT_MAX, Min(FIGHT_OR_FLIGHT_MAX, p.fightOrFlight + amount))]

setInvulnerable(p) == [p EXCEPT !.isInvulnerable = TRUE]

----------------------------------------------------------------------------
(* Items (items.ts) *)

ItemKeys == {"sword", "shield", "goldMagnet", "healthPotion", "bootsOfSpeed",
             "amuletOfVitality", "luckyCharm", "vampiricBlade", "titansBelt",
             "fightOrFlight"}

cost(k) ==
    CASE k = "sword" -> 5
      [] k = "shield" -> 5
      [] k = "goldMagnet" -> 999
      [] k = "healthPotion" -> 2
      [] k = "bootsOfSpeed" -> 4
      [] k = "amuletOfVitality" -> 6
      [] k = "luckyCharm" -> 3
      [] k = "vampiricBlade" -> 7
      [] k = "titansBelt" -> 6
      [] k = "fightOrFlight" -> 0

(* adjustmentValue is <<>> when the caller passes none, <<v>> otherwise *)
adjustmentOr(adj, default) == IF adj = <<>> THEN default ELSE adj[1]

(* the Titan's Belt without the floor under maxHealth *)
titansBeltEffectNoFloor(p) ==
    LET p1 == [p EXCEPT !.maxHealth = p.maxHealth - HP(15)]
        p2 == [p1 EXCEPT !.health = Min(p1.health, p1.maxHealth)]
        p3 == increaseDefense(p2, HP(1))
    IN [p3 EXCEPT !.healthRegenPercent = Min(100, p3.healthRegenPercent + 1)]

titansBeltEffect(p) ==
    LET p1 == [p EXCEPT !.maxHealth = Max(HP(1), p.maxHealth - HP(15))]
        p2 == [p1 EXCEPT !.health = Min(p1.health, p1.maxHealth)]
        p3 == increaseDefense(p2, HP(1))
    IN [p3 EXCEPT !.healthRegenPercent = Min(100, p3.healthRegenPercent + 1)]

applyEffect(k, p, adj) ==
    CASE k = "sword" -> increaseDamage(p, HP(5))
      [] k = "shield" -> increaseDefense(p, HP(5))
      [] k = "goldMagnet" -> p
      [] k = "healthPotion" -> heal(p, HP(20))
      [] k = "bootsOfSpeed" -> increaseSpeed(p, 10)
      [] k = "amuletOfVitality" -> increaseMaxHealth(p, HP(25))
      [] k = "luckyCharm" -> [p EXCEPT !.doubleGoldChance = Min(100, p.doubleGoldChance + 10)]
      [] k = "vampiricBlade" -> [p EXCEPT !.lifestealPercent = Min(100, p.lifestealPercent + 10)]
      [] k = "titansBelt" -> titansBeltEffect(p)
      [] k = "fightOrFlight" -> adjustFightOrFlight(p, adjustmentOr(adj, 1))

----------------------------------------------------------------------------
(* Shop (shop.ts) *)

(* the entries initializeShopItems pushes, in order: the key it looks up in
   items and the base quantity; quantity -1 stands for "playerCount" *)
ShopTable ==
    << [key |-> "healthPotion", base |-> 0],
       [key |-> "sword", base |-> 2],
       [key |-> "shield", base |-> 2],
       [key |-> "bootsOfSpeed", base |-> 1],
       [key |-> "amuletOfVitality", base |-> 1],
       [key |-> "luckyCharm", base |-> 2],
       [key |-> "vampiricBlade", base |-> 1],
       [key |-> "titansBelt", base |-> 1],
       [key |-> "foeMagnet", base |-> -1] >>

RECURSIVE pushEntries(_, _, _)
pushEntries(avail, n, i) ==
    IF i > Len(ShopTable) THEN avail
    ELSE LET e == ShopTable[i]
             bonusQuantity == Max(0, n - 1)
             q == IF e.base = -1 THEN n ELSE e.base + bonusQuantity
         IN IF e.key \in ItemKeys
            THEN pushEntries(Append(avail, [item |-> e.key, quantity |-> q]), n, i + 1)
            ELSE pushEntries(avail, n, i + 1)

(* initializeShopItems with one bonus unit for every player *)
initializeShopItemsBonusPerPlayer(avail, n) == pushEntries(avail, n + 1, 1)

initializeShopItems(avail, n) == pushEntries(avail, n, 1)

(* the base quantity initializeShopItems writes for the item with key k *)
baseQuantity(k) == ShopTable[CHOOSE i \in 1..Len(ShopTable) : ShopTable[i].key = k].base

(* new Shop(scene, n); the constructor throws for n < 1 and callers pass n >= 1 *)
ShopNew(n) == initializeShopItems(<<>>, n)

(* restock that does not clear the entries first *)
restockOnTop(avail, n) == initializeShopItems(avail, n)

restock(avail, n) == initializeShopItems(<<>>, n)

(* buyItemAccepts without the stock check *)
buyItemAcceptsSoldOut(avail, p, idx) ==
    /\ idx >= 0 /\ idx < Len(avail)
    /\ ~(getGold(p) < cost(avail[idx + 1].item))

(* buyItemAccepts without the look into the purse *)
buyItemAcceptsOnCredit(avail, p, idx) ==
    /\ idx >= 0 /\ idx < Len(avail)
    /\ ~(avail[idx + 1].quantity <= 0)

(* buyItemAccepts that takes an entry for sold out only below 0 *)
buyItemAcceptsAtZero(avail, p, idx) ==
    /\ idx >= 0 /\ idx < Len(avail)
    /\ ~(avail[idx + 1].quantity < 0)
    /\ ~(getGold(p) < cost(avail[idx + 1].item))

(* itemArrayIndex is the 0-based index of the source *)
buyItemAccepts(avail, p, idx) ==
    /\ idx >= 0 /\ idx < Len(avail)
    /\ ~(avail[idx + 1].quantity <= 0)
    /\ ~(getGold(p) < cost(avail[idx + 1].item))

(* buyItem applying the effect of the item twice *)
buyItemEffectTwice(avail, p, idx, adj) ==
    IF ~buyItemAccepts(avail, p, idx)
    THEN [ok |-> FALSE, shop |-> avail, player |-> p]
    ELSE LET k == avail[idx + 1].item
             p1 == addGold(p, -cost(k))
             p2 == applyEffect(k, applyEffect(k, p1, adj), adj)
             p3 == [p2 EXCEPT !.inventory = Append(p2.inventory, k)]
         IN [ok |-> TRUE,
             shop |-> [avail EXCEPT ![idx + 1].quantity = @ - 1],
             player |-> p3]

buyItem(avail, p, idx, adj) ==
    IF ~buyItemAccepts(avail, p, idx)
    THEN [ok |-> FALSE, shop |-> avail, player |-> p]
    ELSE LET k == avail[idx + 1].item
             p1 == addGold(p, -cost(k))
             p2 == applyEffect(k, p1, adj)
             p3 == [p2 EXCEPT !.inventory = Append(p2.inventory, k)]
         IN [ok |-> TRUE,
             shop |-> [avail EXCEPT ![idx + 1].quantity = @ - 1],
             player |-> p3]

----------------------------------------------------------------------------
(* Enemy (enemy.ts, enemyConfig.ts) *)

EnemyHealth(t) == CASE t = "Weak" -> HP(30) [] t = "Medium" -> HP(60) [] t = "Strong" -> HP(100)
EnemyDamage(t) == CASE t = "Weak" -> HP(5) [] t = "Medium" -> HP(10) [] t = "Strong" -> HP(15)

NewEnemy(t) == [type |-> t, health |-> EnemyHealth(t), damage |-> EnemyDamage(t), isAlive |-> TRUE]

spawnEnemies ==
    [i \in 1..16 |-> IF i <= 8 THEN NewEnemy("Weak")
                     ELSE IF i <= 13 THEN NewEnemy("Medium")
                     ELSE NewEnemy("Strong")]

enemyTakeDamage(e, amount) ==
    IF ~e.isAlive THEN e
    ELSE LET h == e.health - amount
         IN IF h <= 0 THEN [e EXCEPT !.health = 0, !.isAlive = FALSE]
            ELSE [e EXCEPT !.health = h]

----------------------------------------------------------------------------
(* BattleArenaGame and GameScene (game.ts).  The methods are functions on  *)
(* a record g of the fields of the two objects, so that a handler is the   *)
(* composition of the calls it makes.                                      *)

Cur ==
    [ playerCount |-> playerCount, sceneBooted |-> sceneBooted, scenePaused |-> scenePaused,
      state |-> currentGameState, round |-> currentRound, timer |-> roundTimer,
      shop |-> shopInstance, players |-> players, enemies |-> enemies,
      gameEnded |-> gameEnded, roundOverFlag |-> roundOverFlag, winners |-> winners ]

alivePlayers(g) == {i \in 1..Len(g.players) : g.players[i].isAlive}

getAlivePlayersCount(g) == Cardinality(alivePlayers(g))

getPlayerCount(g) == g.playerCount

(* the timer is counting: scheduled, not yet fired or removed, not paused *)
TimerRunning(t) == t.exists /\ t.pending /\ ~t.paused

(* getRemainingTime that reads the timer in every phase *)
getRemainingTimeAnyPhase(g) ==
    IF g.timer.exists /\ g.timer.elapsed < RoundDuration
    THEN (RoundDuration - g.timer.elapsed + 999) \div 1000
    ELSE 0

getRemainingTime(g) ==
    IF g.timer.exists /\ g.state = Playing /\ g.timer.elapsed < RoundDuration
    THEN (RoundDuration - g.timer.elapsed + 999) \div 1000
    ELSE 0

(* startRoundTimer that adds its event without removing the one before *)
startRoundTimerOnTop(g) ==
    IF g.sceneBooted
    THEN [g EXCEPT !.timer = [exists |-> TRUE, pending |-> TRUE, paused |-> FALSE, elapsed |-> 0,
                              scheduled |-> g.timer.scheduled + 1]]
    ELSE g

(* scheduled counts the events of round timers that the clock of the scene
   holds: addEvent puts one in, remove and the firing take one out *)
startRoundTimer(g) ==
    LET left == IF g.timer.exists /\ g.timer.pending
                THEN g.timer.scheduled - 1 ELSE g.timer.scheduled
        removed == IF g.timer.exists
                   THEN [g.timer EXCEPT !.pending = FALSE, !.scheduled = left]
                   ELSE g.timer
    IN IF g.sceneBooted
       THEN [g EXCEPT !.timer = [exists |-> TRUE, pending |-> TRUE, paused |-> FALSE, elapsed |-> 0,
                                 scheduled |-> left + 1]]
       ELSE [g EXCEPT !.timer = removed]

pauseTimer(t) == IF t.exists THEN [t EXCEPT !.paused = TRUE] ELSE t

(* the stock the shop is created with when the Shop state is entered *)
enterShopStock(g) ==
    LET n == getPlayerCount(g)
    IN restock(ShopNew(n), n)

setCurrentGameState(g, newState) ==
    LET oldState == g.state
        g1 == [g EXCEPT !.state = newState]
        g2 == IF newState = Playing /\ oldState # Playing
              THEN startRoundTimer([g1 EXCEPT !.scenePaused = IF g1.sceneBooted THEN FALSE ELSE @])
              ELSE IF newState = Shop
              THEN [g1 EXCEPT !.scenePaused = IF g1.sceneBooted THEN TRUE ELSE @,
                              !.timer = pauseTimer(@)]
              ELSE IF newState # Playing
              THEN [g1 EXCEPT !.timer = pauseTimer(@)]
              ELSE g1
    IN IF g2.state = Shop /\ g2.shop = NoShop
       THEN [g2 EXCEPT !.shop = enterShopStock(g2)]
       ELSE g2

(* handleGameUpdate that refreshes the display and never ends the round *)
handleGameUpdateOnlyRefreshes(g, playersAlive, roundShouldEnd) == g

handleGameUpdate(g, playersAlive, roundShouldEnd) ==
    IF roundShouldEnd /\ g.state = Playing
    THEN setCurrentGameState(g, RoundOver)
    ELSE g

handleGameEnd(g, winner) ==
    LET g1 == IF g.state # GameOver THEN setCurrentGameState(g, GameOver) ELSE g
    IN [g1 EXCEPT !.winners = Append(@, winner)]

(* winnerOf that names a living player or, with none alive, the first one *)
winnerOfSomebody(g) ==
    IF getAlivePlayersCount(g) >= 1
    THEN g.players[CHOOSE i \in alivePlayers(g) : TRUE].id
    ELSE g.players[1].id

winnerOf(g) ==
    IF getAlivePlayersCount(g) = 1
    THEN g.players[CHOOSE i \in alivePlayers(g) : TRUE].id
    ELSE Draw

(* checkWinCondition that does not remember that the game has ended *)
checkWinConditionForgets(g) ==
    IF getAlivePlayersCount(g) <= 1 /\ g.playerCount > 0 /\ ~g.gameEnded
    THEN setCurrentGameState(handleGameEnd(g, winnerOf(g)), GameOver)
    ELSE g

checkWinCondition(g) ==
    IF getAlivePlayersCount(g) <= 1 /\ g.playerCount > 0 /\ ~g.gameEnded
    THEN LET g1 == [g EXCEPT !.gameEnded = TRUE]
             g2 == handleGameEnd(g1, winnerOf(g1))
         IN setCurrentGameState(g2, GameOver)
    ELSE g

setRoundOver(g, isOver) ==
    LET g1 == [g EXCEPT !.roundOverFlag = isOver]
    IN IF isOver THEN setCurrentGameState(g1, RoundOver) ELSE g1

endRoundDueToTime(g) ==
    IF g.state = Playing
    THEN setRoundOver(setCurrentGameState(g, RoundOver), TRUE)
    ELSE g

(* resetRound that revives the players with nothing in their hands *)
resetRoundEmptyHanded(g) ==
    LET g1 == [g EXCEPT !.roundOverFlag = FALSE,
                        !.players = [i \in 1..Len(g.players) |->
                                        [heal(g.players[i], g.players[i].maxHealth)
                                            EXCEPT !.isAlive = TRUE, !.inventory = <<>>]],
                        !.enemies = spawnEnemies]
    IN handleGameUpdate(g1, getAlivePlayersCount(g1), FALSE)

(* resetRound that heals the players it revives and leaves the survivors
   with the health they have *)
resetRoundRevivesOnly(g) ==
    LET g1 == [g EXCEPT !.roundOverFlag = FALSE,
                        !.players = [i \in 1..Len(g.players) |->
                                        IF g.players[i].isAlive THEN g.players[i]
                                        ELSE [heal(g.players[i], g.players[i].maxHealth)
                                                 EXCEPT !.isAlive = TRUE]],
                        !.enemies = spawnEnemies]
    IN handleGameUpdate(g1, getAlivePlayersCount(g1), FALSE)

resetRound(g) ==
    LET g1 == [g EXCEPT !.roundOverFlag = FALSE,
                        !.players = [i \in 1..Len(g.players) |->
                                        [heal(g.players[i], g.players[i].maxHealth)
                                            EXCEPT !.isAlive = TRUE]],
                        !.enemies = spawnEnemies]
    IN handleGameUpdate(g1, getAlivePlayersCount(g1), FALSE)

(* nextRoundAllowed refusing only a finished game *)
nextRoundAllowedUnlessOver(g) == g.state # GameOver

nextRoundAllowed(g) == g.state = Shop \/ g.state = RoundOver

(* nextRound that starts the next Playing phase under the old round number *)
nextRoundSameNumber(g) ==
    IF nextRoundAllowed(g)
    THEN LET g1 == setCurrentGameState(g, Playing)
         IN IF g1.sceneBooted THEN startRoundTimer(resetRound(g1)) ELSE g1
    ELSE g

(* resetRound reads this.cameras.main, which exists only once the scene has
   booted: before that the call throws and the handler stops there *)
nextRound(g) ==
    IF nextRoundAllowed(g)
    THEN LET g1 == setCurrentGameState([g EXCEPT !.round = @ + 1], Playing)
         IN IF g1.sceneBooted THEN startRoundTimer(resetRound(g1)) ELSE g1
    ELSE g

(* playerAttemptToBuyItem that serves whenever there is a shop *)
playerAttemptToBuyItemAnyPhase(g, pi, idx) ==
    IF g.shop # NoShop
    THEN LET r == buyItem(g.shop, g.players[pi], idx, <<>>)
         IN [g EXCEPT !.shop = r.shop, !.players[pi] = r.player]
    ELSE g

playerAttemptToBuyItem(g, pi, idx) ==
    IF g.state = Shop /\ g.shop # NoShop
    THEN LET r == buyItem(g.shop, g.players[pi], idx, <<>>)
         IN [g EXCEPT !.shop = r.shop, !.players[pi] = r.player]
    ELSE g

(* GameScene.create: the players and the enemies come into being *)
create(g) ==
    LET g1 == [g EXCEPT !.players = [i \in 1..g.playerCount |-> NewPlayer(i)],
                        !.enemies = spawnEnemies]
    IN handleGameUpdate(g1, getAlivePlayersCount(g1), FALSE)

(* Player.update for the fields of the model: a living player's
   invulnerability ends when more than invulnerabilityDuration has passed
   since the hit (clr: the players for which it has), and regeneration heals
   when more than regenInterval has passed (rg: the players for which it has) *)
playerUpdate(p, expired, regenDue) ==
    IF ~p.isAlive THEN p
    ELSE LET p1 == IF p.isInvulnerable /\ expired THEN [p EXCEPT !.isInvulnerable = FALSE] ELSE p
         IN IF p1.healthRegenPercent > 0 /\ regenDue
            THEN heal(p1, (p1.maxHealth * p1.healthRegenPercent) \div 100)
            ELSE p1

someJustDied(g) == \E i \in 1..Len(g.players) : g.players[i].justDied

(* GameScene.update *)
update(g, clr, rg) ==
    LET g1 == [g EXCEPT !.players = [i \in 1..Len(g.players) |->
                                        playerUpdate(g.players[i], i \in clr, i \in rg)]]
    IN IF g1.gameEnded THEN g1
       ELSE LET aliveCount == getAlivePlayersCount(g1)
                playerWasEliminatedThisFrame == someJustDied(g1)
                g2 == handleGameUpdate(g1, aliveCount, g1.roundOverFlag \/ playerWasEliminatedThisFrame)
                g3 == IF playerWasEliminatedThisFrame
                      THEN [g2 EXCEPT !.players = [i \in 1..Len(g2.players) |->
                                                      [g2.players[i] EXCEPT !.justDied = FALSE]]]
                      ELSE g2
            IN IF ~g3.roundOverFlag /\ ~playerWasEliminatedThisFrame
               THEN checkWinCondition(g3)
               ELSE g3

(* GameScene.handlePlayerCollision for players i < j; firstAttacks says
   whether the speed comparison (or the coin toss on equal speeds) makes
   player i the attacker *)
(* collisionResolves that does not look at the invulnerability of either
   player *)
collisionResolvesAlways(g, i, j) ==
    g.players[i].isAlive /\ g.players[j].isAlive

collisionResolves(g, i, j) ==
    /\ g.players[i].isAlive /\ g.players[j].isAlive
    /\ ~g.players[i].isInvulnerable /\ ~g.players[j].isInvulnerable

handlePlayerCollision(g, i, j, firstAttacks) ==
    IF ~collisionResolves(g, i, j) THEN g
    ELSE LET a == IF firstAttacks THEN i ELSE j
             v == IF firstAttacks THEN j ELSE i
             stolenGold == stolenAmount(g.players[v], g.players[a].goldPerHit)
             ps1 == [g.players EXCEPT ![v] = stealGold(@, g.players[a].goldPerHit)]
             ps2 == [ps1 EXCEPT ![a] = addGold(@, stolenGold)]
             ps3 == [ps2 EXCEPT ![i] = takeDamage(@, ps2[j].attackDamage)]
             ps4 == IF ps3[i].isAlive
                    THEN [ps3 EXCEPT ![j] = takeDamage(@, ps3[i].attackDamage)]
                    ELSE ps3
         IN [g EXCEPT !.players = [ps4 EXCEPT ![i] = setInvulnerable(@),
                                              ![j] = setInvulnerable(@)]]

(* enemyCollisionResolves that does not look at the invulnerability of the
   player *)
enemyCollisionResolvesAlways(g, i, e) ==
    g.players[i].isAlive /\ g.enemies[e].isAlive

enemyCollisionResolves(g, i, e) ==
    /\ g.players[i].isAlive /\ g.enemies[e].isAlive
    /\ ~g.players[i].isInvulnerable

handlePlayerEnemyCollision(g, i, e) ==
    IF ~enemyCollisionResolves(g, i, e) THEN g
    ELSE LET p1 == takeDamage(g.players[i], g.enemies[e].damage)
             e1 == enemyTakeDamage(g.enemies[e], p1.attackDamage)
         IN [g EXCEPT !.players[i] = setInvulnerable(p1), !.enemies[e] = e1]

(* a clock that keeps counting a paused timer, with a callback that ends
   the round whatever the phase *)
clockUpdateOfStaleTimer(g, d) ==
    IF ~(g.timer.exists /\ g.timer.pending) THEN g
    ELSE LET e == g.timer.elapsed + d
         IN IF e >= RoundDuration
            THEN setRoundOver(setCurrentGameState([g EXCEPT !.timer.elapsed = RoundDuration,
                                                            !.timer.pending = FALSE,
                                                            !.timer.scheduled = @ - 1], RoundOver), TRUE)
            ELSE [g EXCEPT !.timer.elapsed = e]

(* the clock of the scene advances the round timer by d milliseconds and
   fires its callback once the delay has elapsed *)
clockUpdate(g, d) ==
    IF ~TimerRunning(g.timer) THEN g
    ELSE LET e == g.timer.elapsed + d
         IN IF e >= RoundDuration
            THEN endRoundDueToTime([g EXCEPT !.timer.elapsed = RoundDuration,
                                             !.timer.pending = FALSE,
                                             !.timer.scheduled = @ - 1])
            ELSE [g EXCEPT !.timer.elapsed = e]

(* new BattleArenaGame(n, ...) followed by setCurrentGameState(Playing) *)
newGame(n) ==
    setCurrentGameState(
        [ playerCount |-> n, sceneBooted |-> FALSE, scenePaused |-> FALSE,
          state |-> RoundOver, round |-> 1, timer |-> NoTimer,
          shop |-> NoShop, players |-> <<>>, enemies |-> <<>>,
          gameEnded |-> FALSE, roundOverFlag |-> FALSE, winners |-> <<>> ],
        Playing)

goToShop(g) == setCurrentGameState(g, Shop)

----------------------------------------------------------------------------
(* The game as a state machine: one action per handler *)

NoOp == [name |-> "none", from |-> RoundOver, flag |-> FALSE, arg |-> 0]

Op(n, f, a) == [name |-> n, from |-> currentGameState, flag |-> f, arg |-> a]

PlayingCap == RoundDuration + TickMs

Assign(g) ==
    /\ playerCount' = g.playerCount
    /\ sceneBooted' = g.sceneBooted
    /\ scenePaused' = g.scenePaused
    /\ currentGameState' = g.state
    /\ currentRound' = g.round
    /\ roundTimer' = g.timer
    /\ shopInstance' = g.shop
    /\ players' = g.players
    /\ enemies' = g.enemies
    /\ gameEnded' = g.gameEnded
    /\ roundOverFlag' = g.roundOverFlag
    /\ winners' = g.winners

(* the observer of the time spent in the current Playing phase *)
Observe(g, elapsed) ==
    playingMs' = IF g.state = Playing /\ currentGameState = Playing
                 THEN Min(playingMs + elapsed, PlayingCap)
                 ELSE 0

PreGame ==
    [ playerCount |-> 0, sceneBooted |-> FALSE, scenePaused |-> FALSE,
      state |-> RoundOver, round |-> 1, timer |-> NoTimer,
      shop |-> NoShop, players |-> <<>>, enemies |-> <<>>,
      gameEnded |-> FALSE, roundOverFlag |-> FALSE, winners |-> <<>> ]

(* the observers, and the fields of a controller that holds no game *)
InitRest ==
    /\ game = FALSE
    /\ controllerPlayerCount = DefaultPlayerCount
    /\ playerCount = PreGame.playerCount
    /\ sceneBooted = PreGame.sceneBooted
    /\ scenePaused = PreGame.scenePaused
    /\ currentGameState = PreGame.state
    /\ currentRound = PreGame.round
    /\ roundTimer = PreGame.timer
    /\ enemies = PreGame.enemies
    /\ gameEnded = PreGame.gameEnded
    /\ roundOverFlag = PreGame.roundOverFlag
    /\ winners = PreGame.winners
    /\ playingMs = 0
    /\ collisions = 0
    /\ purchases = 0
    /\ calls = 0
    /\ lastOp = NoOp

Init ==
    /\ InitRest
    /\ shopInstance = PreGame.shop
    /\ players = PreGame.players

(* the player counts tried by the start command: two accepted ones, and one
   below and one above the accepted range *)
StartCounts == {MinPlayers - 1, MinPlayers, MinPlayers + 1, MaxPlayers + 1}

(* the overlaps the physics layer reports: the pairs of players that meet,
   and the pairs of a player and an enemy (the Strong ones at the end of the
   spawn list) that meet; every other body stands clear *)
Duels == {<<1, 2>>}

Contacts == {<<1, 15>>, <<1, 16>>}

(* the overlaps with an enemy where two players duel: either duellist meets
   the last Strong enemy *)
DuelContacts == {<<1, 16>>, <<2, 16>>}

(* startAccepts without the lower limit *)
startAcceptsUpToMax(n) == n <= MaxPlayers

startAccepts(n) == n >= MinPlayers /\ n <= MaxPlayers

(* a frame of a running scene is one engine step: the clock, then the
   overlap callbacks of the physics layer, then GameScene.update; the
   handlers of the page run between frames, so after an overlap callback
   nothing but another callback or the update of the same frame can follow *)
InFrame == lastOp.name \in {"playerCollision", "enemyCollision"}

(* GameController: click on the start button with n in the input field;
   the handler stores the count it reads before it looks at it *)
StartGame(n) ==
    /\ ~InFrame
    /\ controllerPlayerCount' = n
    /\ lastOp' = Op("start", startAccepts(n), n)
    /\ IF startAccepts(n)
       THEN /\ game' = TRUE
            /\ Assign(newGame(n))
            /\ playingMs' = 0
            /\ collisions' = 0
            /\ purchases' = 0
            /\ calls' = calls
       ELSE UNCHANGED <<calls, game, playerCount, sceneBooted, scenePaused, currentGameState,
                        currentRound, roundTimer, shopInstance, players, enemies, gameEnded,
                        roundOverFlag, winners, playingMs, collisions, purchases>>

(* GameController.restartGame: the game is destroyed *)
RestartGame ==
    /\ game /\ ~InFrame
    /\ game' = FALSE
    /\ Assign(PreGame)
    /\ playingMs' = 0
    /\ collisions' = 0
    /\ purchases' = 0
    /\ calls' = calls
    /\ lastOp' = Op("restart", TRUE, 0)
    /\ UNCHANGED controllerPlayerCount

(* the engine starts the scene: GameScene.create *)
SceneBoot ==
    /\ game /\ ~sceneBooted
    /\ LET g == create([Cur EXCEPT !.sceneBooted = TRUE])
       IN Assign(g) /\ Observe(g, 0)
    /\ lastOp' = Op("create", TRUE, 0)
    /\ UNCHANGED <<calls, game, controllerPlayerCount, collisions, purchases>>

(* time passes; the clock of a running scene advances the round timer *)
Tick ==
    /\ game /\ ~InFrame
    /\ LET g == IF sceneBooted /\ ~scenePaused THEN clockUpdate(Cur, TickMs) ELSE Cur
       IN /\ Assign(g) /\ Observe(g, TickMs)
          /\ lastOp' = Op("tick", g.state # currentGameState, 0)
    /\ UNCHANGED <<calls, game, controllerPlayerCount, collisions, purchases>>

(* the engine calls GameScene.update on a running scene *)
Update ==
    /\ game /\ sceneBooted /\ ~scenePaused
    /\ \E clr \in SUBSET {i \in 1..Len(players) : players[i].isAlive /\ players[i].isInvulnerable},
          rg \in SUBSET {i \in 1..Len(players) : players[i].isAlive /\ players[i].healthRegenPercent > 0} :
          LET g == update(Cur, clr, rg)
          IN Assign(g) /\ Observe(g, 0)
    /\ lastOp' = Op("update", ~gameEnded /\ someJustDied(Cur), 0)
    /\ UNCHANGED <<calls, game, controllerPlayerCount, collisions, purchases>>

(* the physics layer reports an overlap of players i and j *)
PlayerCollision(i, j, firstAttacks) ==
    /\ game /\ sceneBooted /\ ~scenePaused
    /\ i < j /\ <<i, j>> \in Duels
    /\ collisionResolves(Cur, i, j) => collisions < MaxCollisions
    /\ LET g == handlePlayerCollision(Cur, i, j, firstAttacks)
       IN Assign(g) /\ Observe(g, 0)
    /\ collisions' = IF collisionResolves(Cur, i, j) THEN collisions + 1 ELSE collisions
    /\ lastOp' = Op("playerCollision", collisionResolves(Cur, i, j), 0)
    /\ UNCHANGED <<calls, game, controllerPlayerCount, purchases>>

(* the collider callback of player i and enemy e *)
EnemyOverlap(i, e) ==
    /\ game /\ sceneBooted /\ ~scenePaused
    /\ enemyCollisionResolves(Cur, i, e) => collisions < MaxCollisions
    /\ LET g == handlePlayerEnemyCollision(Cur, i, e)
       IN /\ Assign(g) /\ Observe(g, 0)
          /\ lastOp' = Op("enemyCollision", enemies[e].isAlive /\ ~g.enemies[e].isAlive, 0)
    /\ collisions' = IF enemyCollisionResolves(Cur, i, e) THEN collisions + 1 ELSE collisions
    /\ UNCHANGED <<calls, game, controllerPlayerCount, purchases>>

(* the physics layer reports an overlap of player i and enemy e *)
PlayerEnemyCollision(i, e) == <<i, e>> \in Contacts /\ EnemyOverlap(i, e)

(* the same report where two players duel *)
DuellistEnemyCollision(i, e) == <<i, e>> \in DuelContacts /\ EnemyOverlap(i, e)

(* BattleArenaGame.nextRound *)
NextRound ==
    /\ game /\ ~InFrame
    /\ nextRoundAllowed(Cur) => currentRound < MaxRounds
    /\ LET g == nextRound(Cur)
       IN Assign(g) /\ Observe(g, 0)
    /\ lastOp' = Op("nextRound", nextRoundAllowed(Cur), 0)
    /\ UNCHANGED <<calls, game, controllerPlayerCount, collisions, purchases>>

(* GameController.goToShop *)
GoToShop ==
    /\ ~InFrame
    /\ IF game
       THEN LET g == goToShop(Cur) IN Assign(g) /\ Observe(g, 0)
       ELSE UNCHANGED <<playerCount, sceneBooted, scenePaused, currentGameState, currentRound,
                        roundTimer, shopInstance, players, enemies, gameEnded, roundOverFlag,
                        winners, playingMs>>
    /\ lastOp' = Op("goToShop", game, 0)
    /\ UNCHANGED <<game, controllerPlayerCount, collisions, purchases, calls>>

(* BattleArenaGame.playerAttemptToBuyItem for player pi and index idx *)
BuyAttempt(pi, idx) ==
    /\ game /\ ~InFrame
    /\ pi \in 1..Len(players)
    /\ LET g == playerAttemptToBuyItem(Cur, pi, idx)
           bought == g.players # players
       IN /\ bought => purchases < MaxPurchases
          /\ Assign(g) /\ Observe(g, 0)
          /\ purchases' = IF bought THEN purchases + 1 ELSE purchases
          /\ lastOp' = Op("buy", bought, idx)
    /\ UNCHANGED <<calls, game, controllerPlayerCount, collisions>>

(* the rounds of a game: the commands, the clock, the frames and the shop *)
Next ==
    \/ \E n \in StartCounts : StartGame(n)
    \/ RestartGame
    \/ SceneBoot
    \/ Tick
    \/ Update
    \/ NextRound
    \/ GoToShop
    \/ \E pi \in 1..Len(players), idx \in -1..Len(ShopTable) : BuyAttempt(pi, idx)

Spec == Init /\ [][Next]_vars

(* the arena of a game: the frames and the overlaps of players and enemies
   the physics layer reports, with the commands that move the game between
   its phases *)
NextArena ==
    \/ \E n \in StartCounts : StartGame(n)
    \/ SceneBoot
    \/ Tick
    \/ Update
    \/ \E i \in 1..Len(players), e \in 1..Len(enemies) : PlayerEnemyCollision(i, e)
    \/ NextRound
    \/ GoToShop

SpecArena == Init /\ [][NextArena]_vars

(* the duels of a game: the frames and the overlaps the physics layer
   reports in its first round, of two players and of either with an enemy *)
NextDuel ==
    \/ \E n \in StartCounts : StartGame(n)
    \/ SceneBoot
    \/ Update
    \/ \E i, j \in 1..Len(players), f \in BOOLEAN : PlayerCollision(i, j, f)
    \/ \E i \in 1..Len(players), e \in 1..Len(enemies) : DuellistEnemyCollision(i, e)

SpecDuel == Init /\ [][NextDuel]_vars

----------------------------------------------------------------------------
(* A player alone: takeDamage and heal called directly, with amounts of
   either sign, on a player that starts with one of two defense values
   (none, or that of one Shield); the round-end check of a frame reads and
   clears the death flag *)

Amounts == {-HP(200), -HP(20), 0, HP(5), HP(15), HP(20), HP(200)}

Defenses == {HP(BASE_DEFENSE), HP(BASE_DEFENSE) + HP(5)}

InitPlayer ==
    /\ InitRest
    /\ shopInstance = PreGame.shop
    /\ \E d \in Defenses : players = <<[NewPlayer(1) EXCEPT !.defense = d]>>

TakeDamageCall(a) ==
    /\ calls < MaxCalls
    /\ players' = [players EXCEPT ![1] = takeDamage(@, a)]
    /\ calls' = calls + 1
    /\ lastOp' = Op("takeDamage", players[1].isAlive, a)
    /\ UNCHANGED <<game, controllerPlayerCount, playerCount, sceneBooted, scenePaused, currentGameState, currentRound,
                   roundTimer, shopInstance, enemies, gameEnded, roundOverFlag, winners,
                   playingMs, collisions, purchases>>

HealCall(a) ==
    /\ calls < MaxCalls
    /\ players' = [players EXCEPT ![1] = heal(@, a)]
    /\ calls' = calls + 1
    /\ lastOp' = Op("heal", players[1].isAlive, a)
    /\ UNCHANGED <<game, controllerPlayerCount, playerCount, sceneBooted, scenePaused, currentGameState, currentRound,
                   roundTimer, shopInstance, enemies, gameEnded, roundOverFlag, winners,
                   playingMs, collisions, purchases>>

(* the lines of GameScene.update that clear the flag of a death *)
ClearJustDied ==
    /\ players[1].justDied
    /\ players' = [players EXCEPT ![1].justDied = FALSE]
    /\ lastOp' = Op("clearJustDied", TRUE, 0)
    /\ UNCHANGED <<game, controllerPlayerCount, playerCount, sceneBooted, scenePaused, currentGameState, currentRound,
                   roundTimer, shopInstance, enemies, gameEnded, roundOverFlag, winners,
                   playingMs, collisions, purchases, calls>>

NextPlayer ==
    \/ \E a \in Amounts : TakeDamageCall(a)
    \/ \E a \in Amounts : HealCall(a)
    \/ ClearJustDied

SpecPlayer == InitPlayer /\ [][NextPlayer]_vars

----------------------------------------------------------------------------
(* A shop alone: stocked for one of four player counts, with a customer
   that holds one of four amounts of gold and whose fight-or-flight is in
   the middle of its range or at its floor; buyItem is called with every
   index from one below the first to one past the last *)

ShopCounts == {1, 2, 3, 4}

Purses == {0, 4, INITIAL_GOLD, 30}

Adjustments == {<<>>, <<-1>>}

CustomerLeanings == {-FIGHT_OR_FLIGHT_MAX, 0}

InitShop ==
    /\ InitRest
    /\ \E n \in ShopCounts : shopInstance = ShopNew(n)
    /\ \E gold \in Purses, f \in CustomerLeanings :
          players = <<adjustFightOrFlight([NewPlayer(1) EXCEPT !.gold = gold], f)>>

BuyItemCall(idx, adj) ==
    LET r == buyItem(shopInstance, players[1], idx, adj)
    IN /\ r.ok => purchases < MaxPurchases
       /\ shopInstance' = r.shop
       /\ players' = [players EXCEPT ![1] = r.player]
       /\ purchases' = IF r.ok THEN purchases + 1 ELSE purchases
       /\ lastOp' = Op("buyItem", r.ok, idx)
       /\ UNCHANGED <<game, controllerPlayerCount, playerCount, sceneBooted, scenePaused, currentGameState,
                      currentRound, roundTimer, enemies, gameEnded, roundOverFlag, winners,
                      playingMs, collisions, calls>>

RestockCall(n) ==
    /\ shopInstance' = restock(shopInstance, n)
    /\ lastOp' = Op("restock", TRUE, n)
    /\ UNCHANGED <<game, controllerPlayerCount, playerCount, sceneBooted, scenePaused, currentGameState,
                   currentRound, roundTimer, players, enemies, gameEnded, roundOverFlag,
                   winners, playingMs, collisions, purchases, calls>>

NextShop ==
    \/ \E idx \in -1..Len(shopInstance), adj \in Adjustments : BuyItemCall(idx, adj)
    \/ \E n \in ShopCounts : RestockCall(n)

SpecShop == InitShop /\ [][NextShop]_vars

----------------------------------------------------------------------------
(* A customer who keeps to one item: the same shops and customers as above,
   and every successful purchase is of the item the customer already holds *)

BuySameCall(idx, adj) ==
    LET r == buyItem(shopInstance, players[1], idx, adj)
        inv == r.player.inventory
    IN /\ r.ok => /\ Len(players[1].inventory) < MaxSame
                  /\ \A i \in 1..Len(inv) : inv[i] = inv[1]
       /\ shopInstance' = r.shop
       /\ players' = [players EXCEPT ![1] = r.player]
       /\ purchases' = IF r.ok THEN purchases + 1 ELSE purchases
       /\ lastOp' = Op("buyItem", r.ok, idx)
       /\ UNCHANGED <<game, controllerPlayerCount, playerCount, sceneBooted, scenePaused, currentGameState,
                      currentRound, roundTimer, enemies, gameEnded, roundOverFlag, winners,
                      playingMs, collisions, calls>>

(* restock(n) between the purchases; purchases counts those made since *)
RestockBetween(n) ==
    /\ shopInstance' = restock(shopInstance, n)
    /\ purchases' = 0
    /\ lastOp' = Op("restock", TRUE, n)
    /\ UNCHANGED <<game, controllerPlayerCount, playerCount, sceneBooted, scenePaused, currentGameState,
                   currentRound, roundTimer, players, enemies, gameEnded, roundOverFlag,
                   winners, playingMs, collisions, calls>>

NextStack ==
    \/ \E idx \in -1..Len(shopInstance), adj \in Adjustments : BuySameCall(idx, adj)
    \/ \E n \in ShopCounts : RestockBetween(n)

SpecStack == InitShop /\ [][NextStack]_vars

----------------------------------------------------------------------------
(* The items alone: Item.applyEffect and Player.adjustFightOrFlight called
   directly on a player that has already applied a Lucky Charm, a Vampiric
   Blade and a Titan's Belt each either never or as often as it takes to
   reach the cap of its stat, and whose fight-or-flight stands at either end
   of its range or in the middle.  The three percentages are kept in
   hundredths (0.1 is 10, 0.01 is 1, the cap 1 is 100) *)

(* the item k applied n times over; the first half is computed, and read,
   before the second half starts *)
RECURSIVE applyTimes(_, _, _)
applyTimes(k, p, n) ==
    IF n = 0 THEN p
    ELSE IF n = 1 THEN applyEffect(k, p, <<>>)
    ELSE LET half == applyTimes(k, p, n \div 2)
         IN IF half.id = p.id THEN applyTimes(k, half, n - (n \div 2)) ELSE p

CharmsWorn == {0, 10}

BladesWorn == {0, 10}

BeltsWorn == {0, 100}

Leanings == {-FIGHT_OR_FLIGHT_MAX, 0, FIGHT_OR_FLIGHT_MAX}

FightOrFlightSteps == {-FIGHT_OR_FLIGHT_MAX, -1, 0, 1, FIGHT_OR_FLIGHT_MAX}

InitItems ==
    /\ InitRest
    /\ shopInstance = PreGame.shop
    /\ \E c \in CharmsWorn, b \in BladesWorn, t \in BeltsWorn, f \in Leanings :
          players = <<adjustFightOrFlight(
                        applyTimes("titansBelt",
                            applyTimes("vampiricBlade",
                                applyTimes("luckyCharm", NewPlayer(1), c), b), t), f)>>

(* items[k].applyEffect(player, adjustmentValue); only the item that
   requires an adjustment value is given one *)
ApplyEffectCall(k, adj) ==
    /\ calls < MaxCalls
    /\ adj # <<>> => k = "fightOrFlight"
    /\ players' = [players EXCEPT ![1] = applyEffect(k, @, adj)]
    /\ calls' = calls + 1
    /\ lastOp' = Op("applyEffect", applyEffect(k, players[1], adj) # players[1],
                    IF k = "fightOrFlight" THEN adjustmentOr(adj, 1) ELSE 0)
    /\ UNCHANGED <<game, controllerPlayerCount, playerCount, sceneBooted, scenePaused, currentGameState, currentRound,
                   roundTimer, shopInstance, enemies, gameEnded, roundOverFlag, winners,
                   playingMs, collisions, purchases>>

AdjustFightOrFlightCall(a) ==
    /\ calls < MaxCalls
    /\ players' = [players EXCEPT ![1] = adjustFightOrFlight(@, a)]
    /\ calls' = calls + 1
    /\ lastOp' = Op("adjustFightOrFlight", adjustFightOrFlight(players[1], a) # players[1], a)
    /\ UNCHANGED <<game, controllerPlayerCount, playerCount, sceneBooted, scenePaused, currentGameState, currentRound,
                   roundTimer, shopInstance, enemies, gameEnded, roundOverFlag, winners,
                   playingMs, collisions, purchases>>

NextItems ==
    \/ \E k \in ItemKeys, adj \in {<<>>} \cup {<<a>> : a \in FightOrFlightSteps} :
          ApplyEffectCall(k, adj)
    \/ \E a \in FightOrFlightSteps : AdjustFightOrFlightCall(a)

SpecItems == InitItems /\ [][NextItems]_vars

----------------------------------------------------------------------------
(* A collision alone: GameScene.handlePlayerCollision called on two players
   that each hold one of four amounts of gold and have either all of their
   health or what one hit takes; player 1 carries a Sword or none, player 2
   may still be invulnerable from an earlier hit.  Player.update ends the
   invulnerability between collisions *)

HealthsLeft == {HP(BASE_ATTACK_DAMAGE), HP(INITIAL_HEALTH)}

SwordsCarried == {0, 1}

InitCollision ==
    /\ InitRest
    /\ shopInstance = PreGame.shop
    /\ \E g1 \in Purses, g2 \in Purses, h1 \in HealthsLeft, h2 \in HealthsLeft,
          n \in SwordsCarried, inv \in BOOLEAN :
          players = << [applyTimes("sword", NewPlayer(1), n) EXCEPT !.gold = g1, !.health = h1],
                       [NewPlayer(2) EXCEPT !.gold = g2, !.health = h2, !.isInvulnerable = inv] >>

(* handlePlayerCollision(player1, player2); arg is the attacker *)
HandlePlayerCollisionCall(firstAttacks) ==
    /\ collisionResolves(Cur, 1, 2) => collisions < MaxCollisions
    /\ players' = handlePlayerCollision(Cur, 1, 2, firstAttacks).players
    /\ collisions' = IF collisionResolves(Cur, 1, 2) THEN collisions + 1 ELSE collisions
    /\ lastOp' = Op("handlePlayerCollision", collisionResolves(Cur, 1, 2),
                    IF firstAttacks THEN 1 ELSE 2)
    /\ UNCHANGED <<game, controllerPlayerCount, playerCount, sceneBooted, scenePaused, currentGameState, currentRound,
                   roundTimer, shopInstance, enemies, gameEnded, roundOverFlag, winners,
                   playingMs, purchases, calls>>

(* Player.update of both players once the invulnerability has run out *)
InvulnerabilityExpires ==
    /\ \E i \in 1..Len(players) : players[i].isAlive /\ players[i].isInvulnerable
    /\ players' = [i \in 1..Len(players) |-> playerUpdate(players[i], TRUE, FALSE)]
    /\ lastOp' = Op("playerUpdate", TRUE, 0)
    /\ UNCHANGED <<game, controllerPlayerCount, playerCount, sceneBooted, scenePaused, currentGameState, currentRound,
                   roundTimer, shopInstance, enemies, gameEnded, roundOverFlag, winners,
                   playingMs, collisions, purchases, calls>>

NextCollision ==
    \/ \E f \in BOOLEAN : HandlePlayerCollisionCall(f)
    \/ InvulnerabilityExpires

SpecCollision == InitCollision /\ [][NextCollision]_vars

----------------------------------------------------------------------------
(* The purses of two players: player 1 buys from a shop stocked for two,
   and the two collide, each stealing from the other; both start with one
   of four amounts of gold and with the health that two hits take *)

InitPurse ==
    /\ InitRest
    /\ shopInstance = ShopNew(MinPlayers)
    /\ \E g1 \in Purses, g2 \in Purses :
          players = << [NewPlayer(1) EXCEPT !.gold = g1, !.health = 2 * HP(BASE_ATTACK_DAMAGE)],
                       [NewPlayer(2) EXCEPT !.gold = g2, !.health = 2 * HP(BASE_ATTACK_DAMAGE)] >>

NextPurse ==
    \/ \E idx \in -1..Len(shopInstance), adj \in Adjustments : BuyItemCall(idx, adj)
    \/ \E f \in BOOLEAN : HandlePlayerCollisionCall(f)
    \/ InvulnerabilityExpires

SpecPurse == InitPurse /\ [][NextPurse]_vars

----------------------------------------------------------------------------
(* A season of a game of three: the game has been started and its scene
   booted, and in the frames of its first round player 1 has met the two
   Strong enemies nine times, killing the first and keeping 15 of its
   health; from there the frames, the clock, the overlaps, the shop and the
   next round *)

(* n frames in each of which player 1 meets the enemy e, is hit, and has
   its invulnerability run out before the next; each frame is computed, and
   read, before the next starts *)
RECURSIVE afterHits(_, _, _)
afterHits(g, e, n) ==
    IF n = 0 THEN g
    ELSE LET h == update(handlePlayerEnemyCollision(g, 1, e), {1}, {})
         IN IF h.round = g.round THEN afterHits(h, e, n - 1) ELSE g

MidRound ==
    afterHits(afterHits(create([newGame(MinPlayers + 1) EXCEPT !.sceneBooted = TRUE]), 15, 7), 16, 2)

(* the second round of the same game, as far on: player 1 fell to the next
   hit, bought a Sword in the shop that followed, was revived, and met the
   new enemies as before *)
swordIndex(shop) == CHOOSE idx \in 0..(Len(shop) - 1) : shop[idx + 1].item = "sword"

SecondRound ==
    LET fallen == goToShop(afterHits(MidRound, 16, 1))
        armed == nextRound(playerAttemptToBuyItem(fallen, 1, swordIndex(fallen.shop)))
    IN afterHits(afterHits(armed, 15, 5), 16, 4)

(* the second round of a game of two, as far on: the first round was left
   for the shop, and nothing was bought there *)
LastStand ==
    LET opened == goToShop(create([newGame(MinPlayers) EXCEPT !.sceneBooted = TRUE]))
    IN afterHits(afterHits(nextRound(opened), 15, 7), 16, 2)

InitSeason ==
    /\ game = TRUE
    /\ \E g \in {MidRound, SecondRound, LastStand} :
          /\ controllerPlayerCount = g.playerCount
          /\ playerCount = g.playerCount
          /\ sceneBooted = g.sceneBooted
          /\ scenePaused = g.scenePaused
          /\ currentGameState = g.state
          /\ currentRound = g.round
          /\ roundTimer = g.timer
          /\ shopInstance = g.shop
          /\ players = g.players
          /\ enemies = g.enemies
          /\ gameEnded = g.gameEnded
          /\ roundOverFlag = g.roundOverFlag
          /\ winners = g.winners
          /\ purchases = Len(g.players[1].inventory)
    /\ playingMs = 0
    /\ collisions = MaxCollisions - 2
    /\ calls = 0
    /\ lastOp = [name |-> "update", from |-> Playing, flag |-> FALSE, arg |-> 0]

(* the players that go shopping: the one the enemies wound, and one that
   stands clear of them *)
Shoppers == {1}

(* the indexes they ask for: the Health Potion, the Sword and the Titan's
   Belt, and one below the first entry and one past the last *)
Shelves == {-1, 0, 1, Len(ShopTable) - 2, Len(ShopTable) - 1}

NextSeason ==
    \/ Update
    \/ \E i \in 1..Len(players), e \in 1..Len(enemies) : PlayerEnemyCollision(i, e)
    \/ NextRound
    \/ GoToShop
    \/ \E pi \in Shoppers, idx \in Shelves : BuyAttempt(pi, idx)

SpecSeason == InitSeason /\ [][NextSeason]_vars

----------------------------------------------------------------------------
(* The bounces: the two collision handlers with the velocity of each player,
   an angle in degrees and a speed.  The angle between the two bodies of an
   overlap comes from their positions and is an input of the call *)

Angles == {0, 90}

opposite(a) == (a + 180) % 360

(* a player with a velocity: setInitialVelocity gives it its moveSpeed in a
   direction of its own *)
moving(p, a) ==
    [f \in DOMAIN p \cup {"velocity"} |->
        IF f = "velocity" THEN [angle |-> a, speed |-> p.moveSpeed] ELSE p[f]]

(* the end of handlePlayerCollision: player i is sent away from player j and
   player j away from player i, each at its moveSpeed; the handler has
   returned before if either was dead when it was called *)
bounceApart(before, g, i, j, a) ==
    IF ~before.players[i].isAlive \/ ~before.players[j].isAlive THEN g
    ELSE [g EXCEPT !.players[i].velocity = [angle |-> opposite(a), speed |-> g.players[i].moveSpeed],
                   !.players[j].velocity = [angle |-> a, speed |-> g.players[j].moveSpeed]]

(* the end of handlePlayerEnemyCollision: player i is sent away from enemy e *)
bounceAway(before, g, i, e, a) ==
    IF ~before.players[i].isAlive \/ ~before.enemies[e].isAlive THEN g
    ELSE [g EXCEPT !.players[i].velocity = [angle |-> a, speed |-> g.players[i].moveSpeed]]

InitBounce ==
    /\ InitRest
    /\ shopInstance = PreGame.shop
    /\ \E a1 \in {0, 90}, a2 \in {0, 90}, inv \in BOOLEAN :
          players = << moving(NewPlayer(1), a1),
                       moving([NewPlayer(2) EXCEPT !.isInvulnerable = inv], a2) >>

(* the scene puts its enemies down after its players *)
EnemiesSpawn ==
    /\ enemies = <<>>
    /\ enemies' = <<NewEnemy("Strong")>>
    /\ lastOp' = Op("spawnEnemies", TRUE, 0)
    /\ UNCHANGED <<game, controllerPlayerCount, playerCount, sceneBooted, scenePaused, currentGameState,
                   currentRound, roundTimer, shopInstance, players, gameEnded, roundOverFlag,
                   winners, playingMs, collisions, purchases, calls>>

(* handlePlayerCollision(player1, player2) with the bodies at the angle a;
   arg is the player that was invulnerable, if one was *)
PlayerBounceCall(firstAttacks, a) ==
    /\ collisionResolves(Cur, 1, 2) => collisions < MaxCollisions
    /\ players' = bounceApart(Cur, handlePlayerCollision(Cur, 1, 2, firstAttacks), 1, 2, a).players
    /\ collisions' = IF collisionResolves(Cur, 1, 2) THEN collisions + 1 ELSE collisions
    /\ lastOp' = Op("handlePlayerCollision", collisionResolves(Cur, 1, 2),
                    IF firstAttacks THEN 1 ELSE 2)
    /\ UNCHANGED <<game, controllerPlayerCount, playerCount, sceneBooted, scenePaused, currentGameState,
                   currentRound, roundTimer, shopInstance, enemies, gameEnded, roundOverFlag,
                   winners, playingMs, purchases, calls>>

(* handlePlayerEnemyCollision(player i, the enemy) with the bodies at the
   angle a *)
EnemyBounceCall(i, a) ==
    /\ enemies # <<>>
    /\ enemyCollisionResolves(Cur, i, 1) => collisions < MaxCollisions
    /\ LET g == bounceAway(Cur, handlePlayerEnemyCollision(Cur, i, 1), i, 1, a)
       IN players' = g.players /\ enemies' = g.enemies
    /\ collisions' = IF enemyCollisionResolves(Cur, i, 1) THEN collisions + 1 ELSE collisions
    /\ lastOp' = Op("handlePlayerEnemyCollision", enemyCollisionResolves(Cur, i, 1), i)
    /\ UNCHANGED <<game, controllerPlayerCount, playerCount, sceneBooted, scenePaused, currentGameState,
                   currentRound, roundTimer, shopInstance, gameEnded, roundOverFlag,
                   winners, playingMs, purchases, calls>>

NextBounce ==
    \/ EnemiesSpawn
    \/ \E f \in BOOLEAN, a \in Angles : PlayerBounceCall(f, a)
    \/ \E i \in 1..Len(players), a \in Angles : EnemyBounceCall(i, a)
    \/ InvulnerabilityExpires

SpecBounce == InitBounce /\ [][NextBounce]_vars

----------------------------------------------------------------------------
(* Claims *)

(* the entry of the shop at the 0-based index idx, and the stock quantities *)
EntryAt(avail, idx) == avail[idx + 1]

ValidIndex(avail, idx) == idx >= 0 /\ idx < Len(avail)

BuyItemStep == lastOp'.name = "buyItem"

(* C3: a purchase with an invalid index, with zero stock at that index, or
   with gold below the cost of the item returns false and leaves the player
   (gold, inventory, stats) and every stock quantity of the shop as they
   were *)
C3_FailedPurchaseChangesNothing ==
    [][ (/\ BuyItemStep
         /\ \/ ~ValidIndex(shopInstance, lastOp'.arg)
            \/ EntryAt(shopInstance, lastOp'.arg).quantity = 0
            \/ players[1].gold < cost(EntryAt(shopInstance, lastOp'.arg).item))
        => (/\ ~lastOp'.flag
            /\ players' = players
            /\ shopInstance' = shopInstance) ]_vars

(* C3 witness: buyItem has refused a customer who asked for an entry that
   exists and is in stock but costs more gold than the customer holds *)
C3_Witness ==
    /\ lastOp.name = "buyItem" /\ ~lastOp.flag
    /\ ValidIndex(shopInstance, lastOp.arg)
    /\ EntryAt(shopInstance, lastOp.arg).quantity > 0
    /\ players[1].gold < cost(EntryAt(shopInstance, lastOp.arg).item)

(* C4: a successful purchase returns true and, in one step, lowers the gold
   of the player by the cost of the item, applies the effect of the item
   once, appends that item to the end of the inventory, and lowers the stock
   of that entry by one while the stock of every other entry is unchanged *)
C4_SuccessfulPurchase ==
    [][ (BuyItemStep /\ lastOp'.flag)
        => LET idx == lastOp'.arg
               k == EntryAt(shopInstance, idx).item
               paid == [players[1] EXCEPT !.gold = @ - cost(k)]
               served == applyEffect(k, paid, <<>>)
           IN /\ ValidIndex(shopInstance, idx)
              /\ players'[1].gold = players[1].gold - cost(k)
              /\ players'[1].inventory = Append(players[1].inventory, k)
              /\ players'[1] = [served EXCEPT !.inventory = Append(@, k)]
              /\ Len(shopInstance') = Len(shopInstance)
              /\ \A i \in 1..Len(shopInstance) :
                    /\ shopInstance'[i].item = shopInstance[i].item
                    /\ shopInstance'[i].quantity =
                          IF i = idx + 1 THEN shopInstance[i].quantity - 1
                          ELSE shopInstance[i].quantity ]_vars

(* C4 witness: buyItem has served a customer, who now holds the item *)
C4_Witness ==
    /\ lastOp.name = "buyItem" /\ lastOp.flag
    /\ Len(players[1].inventory) = 1
    /\ players[1].inventory[1] = EntryAt(shopInstance, lastOp.arg).item

(* C5 as stated: after every takeDamage and heal call, with any amount and
   on a living or a dead player, 0 <= health <= maxHealth *)
C5_HealthWithinBounds ==
    \A i \in 1..Len(players) :
        players[i].health >= 0 /\ players[i].health <= players[i].maxHealth

UpdateStep == lastOp'.name = "update"

(* C1 as stated: in Playing, a tick that finds at most one player alive
   takes the phase to GameOver in that tick, without passing through
   RoundOver, even when a death is pending in the same tick *)
C1_LastSurvivorEndsGameInSameTick ==
    [][ (/\ UpdateStep
         /\ currentGameState = Playing /\ ~gameEnded
         /\ getAlivePlayersCount(Cur) <= 1)
        => currentGameState' = GameOver ]_vars

(* C2 as stated: once the phase is GameOver it stays GameOver, whatever
   nextRound, goToShop, purchase, timer expiry or tick follows, as long as
   the same game lives *)
C2_GameOverIsTerminal ==
    [][ (/\ currentGameState = GameOver
         /\ lastOp'.name \notin {"start", "restart"})
        => currentGameState' = GameOver ]_vars

(* C6: nextRound called while the phase is Playing changes nothing: the
   phase, the round number, the round timer and the state of every
   combatant stay as they are *)
C6_NextRoundWhilePlayingIsNoOp ==
    [][ (lastOp'.name = "nextRound" /\ currentGameState = Playing)
        => UNCHANGED <<currentGameState, currentRound, roundTimer, players, enemies,
                       scenePaused, roundOverFlag>> ]_vars

(* C6 witness: nextRound has been called in a Playing phase whose timer is
   counting and in which a player has been hurt *)
C6_Witness ==
    /\ lastOp.name = "nextRound" /\ lastOp.from = Playing
    /\ currentGameState = Playing
    /\ TimerRunning(roundTimer)
    /\ \E i \in 1..Len(players) : players[i].health < players[i].maxHealth

(* C7 as stated: while Playing, when the death of a combatant, player or
   enemy, has fired and more than one player remains alive, the tick takes
   the phase to RoundOver and leaves the round timer not counting *)
C7_AnyDeathEndsRound ==
    [][ (/\ UpdateStep
         /\ currentGameState = Playing /\ ~gameEnded
         /\ getAlivePlayersCount(Cur) > 1
         /\ \/ someJustDied(Cur)
            \/ lastOp.name = "enemyCollision" /\ lastOp.flag)
        => (currentGameState' = RoundOver /\ ~TimerRunning(roundTimer')) ]_vars

(* C7 amended: while Playing, when the round-end check of a tick sees the
   death flag of a player and more than one player remains alive, the phase
   becomes RoundOver and the round timer is paused *)
C7_PlayerDeathEndsRound ==
    [][ (/\ UpdateStep
         /\ currentGameState = Playing /\ ~gameEnded
         /\ getAlivePlayersCount(Cur) > 1
         /\ someJustDied(Cur))
        => (currentGameState' = RoundOver /\ ~TimerRunning(roundTimer')) ]_vars

(* C7 witness: a tick of a timed Playing phase has seen the death of a
   player with two players left alive; the phase is RoundOver and the timer,
   which has not fired, is paused *)
C7_Witness ==
    /\ lastOp.name = "update" /\ lastOp.from = Playing /\ lastOp.flag
    /\ currentGameState = RoundOver
    /\ getAlivePlayersCount(Cur) > 1
    /\ roundTimer.exists /\ roundTimer.pending /\ roundTimer.paused

(* C8 as stated: no Playing phase lasts longer than the round duration *)
C8_PlayingBoundedByRoundDuration ==
    (currentGameState = Playing /\ sceneBooted) => playingMs <= RoundDuration

(* C9 as stated: on every transition from RoundOver into Shop every entry
   of the shop has its initial quantity again *)
C9_RestockOnEveryShopEntry ==
    [][ (currentGameState = RoundOver /\ currentGameState' = Shop)
        => \E n \in MinPlayers..MaxPlayers : shopInstance' = ShopNew(n) ]_vars

(* C10 as stated: when the shop is stocked on entering Shop, it is stocked
   for the number of players alive at that moment *)
C10_StockedForLivingPlayers ==
    [][ (/\ currentGameState' = Shop /\ sceneBooted
         /\ shopInstance = NoShop /\ shopInstance' # NoShop)
        => shopInstance' = ShopNew(getAlivePlayersCount(Cur)) ]_vars

(* a step of one game: the controller neither creates nor destroys it *)
SameGame == lastOp'.name \notin {"start", "restart"}

EntersGameOver == currentGameState # GameOver /\ currentGameState' = GameOver

(* C11: within a game the game-end callback of the controller is invoked on
   exactly the steps that change the phase into GameOver, once on each such
   step, and at most once in the whole game: winners, the record of its
   invocations, grows by one on a step into GameOver, is untouched by every
   other step, and never holds more than one entry *)
C11_GameEndCallbackOnceOnGameOver ==
    [][SameGame =>
          /\ EntersGameOver => Len(winners') = Len(winners) + 1
          /\ ~EntersGameOver => winners' = winners
          /\ Len(winners') <= 1]_vars

(* C11: the game has ended in a frame, with its one callback made, and the
   frames keep coming *)
C11_Witness ==
    /\ currentGameState = GameOver /\ gameEnded /\ Len(winners) = 1
    /\ lastOp.name = "update" /\ lastOp.from = GameOver

(* C12: the phase becomes GameOver only from Playing: no step of a game
   takes the phase from Shop or from RoundOver to GameOver *)
C12_GameOverOnlyFromPlaying ==
    [][(SameGame /\ EntersGameOver) => currentGameState = Playing]_vars

EntersPlaying == currentGameState # Playing /\ currentGameState' = Playing

(* C13: a game that starts is in round 1 and Playing; within a game every
   step that changes the phase into Playing comes from RoundOver or Shop and
   adds exactly one to the round number, and every other step leaves the
   round number as it is *)
C13_RoundCountsPlayingPhases ==
    [][/\ (lastOp'.name = "start" /\ lastOp'.flag) =>
              currentRound' = 1 /\ currentGameState' = Playing
       /\ (SameGame /\ EntersPlaying) =>
              /\ currentGameState \in {RoundOver, Shop}
              /\ currentRound' = currentRound + 1
       /\ (SameGame /\ ~EntersPlaying) => currentRound' = currentRound]_vars

(* C13: the second round has begun from RoundOver *)
C13_Witness ==
    /\ lastOp.name = "nextRound" /\ lastOp.flag /\ lastOp.from = RoundOver
    /\ currentGameState = Playing /\ currentRound = 2

(* C14: in every phase other than Playing the remaining round time is 0 *)
C14_NoRemainingTimeOutsidePlaying ==
    currentGameState # Playing => getRemainingTime(Cur) = 0

(* C14: a round was left for the shop before its time was up: the timer
   holds an unfinished delay while the phase is Shop *)
C14_Witness ==
    /\ game /\ currentGameState = Shop
    /\ roundTimer.exists /\ roundTimer.pending
    /\ roundTimer.elapsed > 0 /\ roundTimer.elapsed < RoundDuration

(* C15: whatever items are applied and whatever adjustments are made, the
   chance of double gold, the lifesteal and the health regeneration of every
   player stay between 0 and 1 (0 and 100 hundredths) and the fight-or-flight
   value stays between -10 and 10 *)
C15_StatsWithinRange ==
    \A i \in 1..Len(players) :
        /\ players[i].doubleGoldChance >= 0 /\ players[i].doubleGoldChance <= 100
        /\ players[i].lifestealPercent >= 0 /\ players[i].lifestealPercent <= 100
        /\ players[i].healthRegenPercent >= 0 /\ players[i].healthRegenPercent <= 100
        /\ players[i].fightOrFlight >= -FIGHT_OR_FLIGHT_MAX
        /\ players[i].fightOrFlight <= FIGHT_OR_FLIGHT_MAX

(* C15: with all four stats at their upper limits, the Fight or Flight item
   was applied with a positive adjustment and changed nothing *)
C15_Witness ==
    /\ lastOp.name = "applyEffect" /\ lastOp.arg > 0 /\ ~lastOp.flag
    /\ players[1].doubleGoldChance = 100 /\ players[1].lifestealPercent = 100
    /\ players[1].healthRegenPercent = 100
    /\ players[1].fightOrFlight = FIGHT_OR_FLIGHT_MAX

(* C16: a player that is dead stays dead for as long as nothing resets it,
   so it dies at most once; and takeDamage on a dead player changes nothing:
   its health, its isAlive and its death flag are what they were, and a flag
   that was read and cleared is not raised again *)
C16_DeadTakesNoDamage ==
    [][\A i \in 1..Len(players) :
          /\ ~players[i].isAlive => ~players'[i].isAlive
          /\ (lastOp'.name = "takeDamage" /\ ~players[i].isAlive) =>
                 players'[i] = players[i]]_vars

(* C16: takeDamage with a positive amount was called on a dead player whose
   death flag had been cleared *)
C16_Witness ==
    /\ lastOp.name = "takeDamage" /\ ~lastOp.flag /\ lastOp.arg > 0
    /\ ~players[1].isAlive /\ ~players[1].justDied

(* C17: the round-end check of a frame in which the death flag of a player
   is up sees the flag, and when the frame is over no flag is up: a death is
   seen by the check of its own frame and by no later one *)
C17_DeathFlagSeenOnceAndCleared ==
    [][(UpdateStep /\ someJustDied(Cur)) =>
          /\ lastOp'.flag
          /\ \A i \in 1..Len(players') : ~players'[i].justDied]_vars

ResolvedCollisionStep == lastOp'.name = "handlePlayerCollision" /\ lastOp'.flag

(* C18: in a collision of two players that resolves, the victim loses the
   smaller of the attacker's goldPerHit and the gold the victim holds, the
   attacker gains exactly that, no player's gold is negative afterwards and
   the gold of the two together is what it was *)
C18_StealMovesBoundedGold ==
    [][ResolvedCollisionStep =>
          LET a == lastOp'.arg
              v == 3 - a
              stolen == Min(players[a].goldPerHit, players[v].gold)
          IN /\ players'[v].gold = players[v].gold - stolen
             /\ players'[a].gold = players[a].gold + stolen
             /\ players'[v].gold >= 0
             /\ players'[1].gold + players'[2].gold = players[1].gold + players[2].gold]_vars

(* C18: a collision resolved with player 2 as the attacker and left both
   players without gold: the victim held less than the attacker takes per
   hit *)
C18_Witness ==
    /\ lastOp.name = "handlePlayerCollision" /\ lastOp.flag /\ lastOp.arg = 2
    /\ players[1].gold = 0 /\ players[2].gold = 0

(* the health takeDamage leaves a living player with *)
HealthAfterHit(p, amount) == Max(0, p.health - Max(0, amount - p.defense))

(* C19: in a collision of two players that resolves, each of the two loses
   the health that the attackDamage of the other takes from it, whichever of
   them is the attacker and whichever of the two hits is applied first *)
C19_BothTakeDamage ==
    [][ResolvedCollisionStep =>
          /\ players'[1].health = HealthAfterHit(players[1], players[2].attackDamage)
          /\ players'[2].health = HealthAfterHit(players[2], players[1].attackDamage)]_vars

(* C20: takeDamage(amount) on a living player leaves it with the health
   max(0, health - max(0, amount - defense)); when the defense is at least
   the amount, the health is not lower than before *)
C20_DamageAfterDefense ==
    [][\A i \in 1..Len(players) :
          (lastOp'.name = "takeDamage" /\ players[i].isAlive) =>
             /\ players'[i].health = HealthAfterHit(players[i], lastOp'.arg)
             /\ players[i].defense >= lastOp'.arg =>
                    players'[i].health >= players[i].health]_vars

(* C20: a living player with a Shield's defense was hit for an amount the
   defense covers, and has all of its health *)
C20_Witness ==
    /\ lastOp.name = "takeDamage" /\ lastOp.flag /\ lastOp.arg > 0
    /\ players[1].defense >= lastOp.arg
    /\ players[1].isAlive /\ players[1].health = players[1].maxHealth

(* C21: whatever is bought, stolen and gained, no player's gold is below 0 *)
C21_GoldNeverNegative ==
    \A i \in 1..Len(players) : players[i].gold >= 0

(* C21: player 1 has spent gold in the shop, holds none, and has just been
   the victim of a collision that resolved *)
C21_Witness ==
    /\ lastOp.name = "handlePlayerCollision" /\ lastOp.flag /\ lastOp.arg = 2
    /\ purchases > 0 /\ Len(players[1].inventory) > 0
    /\ players[1].gold = 0

(* C22: on the step that takes a game into GameOver the winner reported to
   the controller is the id of the living player when exactly one player is
   alive, and the draw marker when none is *)
C22_WinnerIsSurvivorOrDraw ==
    [][(SameGame /\ EntersGameOver) =>
          LET winner == winners'[Len(winners')]
              alive == {i \in 1..Len(players') : players'[i].isAlive}
          IN /\ Len(winners') > 0
             /\ Cardinality(alive) = 1 => \A i \in alive : winner = players'[i].id
             /\ Cardinality(alive) = 0 => winner = Draw]_vars

(* C22: a game has ended with nobody alive, and the draw was reported *)
C22_Witness ==
    /\ currentGameState = GameOver /\ lastOp.name = "update" /\ lastOp.from # GameOver
    /\ \A i \in 1..Len(players) : ~players[i].isAlive
    /\ winners = <<Draw>>

(* a start command with a player count outside MinPlayers..MaxPlayers *)
InvalidStartStep ==
    /\ lastOp'.name = "start"
    /\ lastOp'.arg < MinPlayers \/ lastOp'.arg > MaxPlayers

GameUntouched ==
    UNCHANGED <<game, playerCount, sceneBooted, scenePaused, currentGameState, currentRound,
                roundTimer, shopInstance, players, enemies, gameEnded, roundOverFlag, winners>>

(* C23: a start command with a player count outside 2..8 is refused and
   changes no state at all, neither of the game nor of the controller *)
C23_InvalidStartChangesNothing ==
    [][InvalidStartStep =>
          /\ ~lastOp'.flag
          /\ GameUntouched
          /\ UNCHANGED controllerPlayerCount]_vars

(* C23: a start command with a player count outside 2..8 is refused and
   changes nothing of the game: no game is created, replaced or altered;
   the controller keeps the refused count in its own playerCount field *)
C23_InvalidStartLeavesGameAlone ==
    [][InvalidStartStep =>
          /\ ~lastOp'.flag
          /\ GameUntouched
          /\ controllerPlayerCount' = lastOp'.arg]_vars

(* C23: a start command was refused while a game was in its second round *)
C23_Witness ==
    /\ lastOp.name = "start" /\ ~lastOp.flag
    /\ game /\ currentRound = 2 /\ controllerPlayerCount # playerCount

RestockStep == lastOp'.name = "restock"

(* C24: in a freshly stocked shop a player whose fightOrFlight is at the
   floor -10 can buy the free adjustable item with adjustment -1: buyItem
   returns true at the index of that entry, the stock of the entry goes down
   by one, the item is appended to the inventory and fightOrFlight is still
   -10 *)
C24_FreeItemBoughtAtTheFloor ==
    [][(RestockStep /\ players'[1].fightOrFlight = -FIGHT_OR_FLIGHT_MAX) =>
          \E idx \in 0..(Len(shopInstance') - 1) :
              LET r == buyItem(shopInstance', players'[1], idx, <<-1>>)
              IN /\ shopInstance'[idx + 1].item = "fightOrFlight"
                 /\ r.ok
                 /\ r.shop[idx + 1].quantity = shopInstance'[idx + 1].quantity - 1
                 /\ r.player.inventory = Append(players'[1].inventory, "fightOrFlight")
                 /\ r.player.fightOrFlight = -FIGHT_OR_FLIGHT_MAX]_vars

(* C25: a shop stocked for n players holds an entry of the free adjustable
   item, Fight or Flight at cost 0, with a stock of exactly n *)
C25_FreeItemStockedPerPlayer ==
    [][RestockStep =>
          \E idx \in 1..Len(shopInstance') :
              /\ shopInstance'[idx].item = "fightOrFlight"
              /\ cost(shopInstance'[idx].item) = 0
              /\ shopInstance'[idx].quantity = lastOp'.arg]_vars

(* C26: in a shop stocked for n players every entry with a price has its
   base quantity plus max(0, n - 1) in stock; stocked for 4 players, an
   entry with base quantity 2 has 5 *)
C26_StockIsBasePlusBonus ==
    [][RestockStep =>
          /\ \A idx \in 1..Len(shopInstance') :
                 cost(shopInstance'[idx].item) > 0 =>
                    shopInstance'[idx].quantity =
                       baseQuantity(shopInstance'[idx].item) + Max(0, lastOp'.arg - 1)
          /\ lastOp'.arg = 4 =>
                 \A idx \in 1..Len(shopInstance') :
                    baseQuantity(shopInstance'[idx].item) = 2 =>
                       shopInstance'[idx].quantity = 5]_vars

(* C26: the shop was stocked for 4 players and holds 5 Swords *)
C26_Witness ==
    /\ lastOp.name = "restock" /\ lastOp.arg = 4
    /\ \E idx \in 1..Len(shopInstance) :
          /\ shopInstance[idx].item = "sword"
          /\ baseQuantity("sword") = 2
          /\ shopInstance[idx].quantity = 5

(* C27: after restock(n), whatever was bought before, the entries of the
   shop and their quantities are those of a shop newly made for n players,
   in the same order, and no item has two entries *)
C27_RestockEqualsNewShop ==
    [][RestockStep =>
          /\ shopInstance' = ShopNew(lastOp'.arg)
          /\ \A i, j \in 1..Len(shopInstance') :
                 shopInstance'[i].item = shopInstance'[j].item => i = j]_vars

(* C27: the shop was restocked after a purchase had taken a unit from it *)
C27_Witness ==
    /\ lastOp.name = "restock" /\ purchases > 0
    /\ Len(players[1].inventory) > 0
    /\ shopInstance = ShopNew(lastOp.arg)

(* the number of entries of an inventory that are the item k *)
held(inv, k) == Cardinality({i \in 1..Len(inv) : inv[i] = k})

(* the player but for its gold and its inventory *)
StatsOf(p) == [p EXCEPT !.gold = 0, !.inventory = <<>>]

(* C28: a customer who has bought one item N times over, and nothing else,
   has the stats of a new player to whom the effect of that item was applied
   N times in a row; for the Boots of Speed, moveSpeed is 10 * N above the
   speed a player starts with *)
C28_PurchasesStack ==
    LET p == players[1]
        N == Len(p.inventory)
        start == adjustFightOrFlight(NewPlayer(1), p.fightOrFlight)
    IN (N > 0 /\ held(p.inventory, p.inventory[1]) = N)
          => /\ StatsOf(p) = StatsOf(applyTimes(p.inventory[1], start, N))
             /\ p.inventory[1] = "bootsOfSpeed" => p.moveSpeed = BASE_MOVE_SPEED + 10 * N

(* C28: the customer has bought Boots of Speed three times and moves 30
   faster than a player starts out *)
C28_Witness ==
    /\ lastOp.name = "buyItem" /\ lastOp.flag
    /\ held(players[1].inventory, "bootsOfSpeed") = 3
    /\ Len(players[1].inventory) = 3
    /\ players[1].moveSpeed = BASE_MOVE_SPEED + 30

(* C29: however often the Titan's Belt was applied, and whatever other item
   was applied before or after it, maxHealth is at least 1 and health is at
   most maxHealth *)
C29_BeltKeepsHealthInRange ==
    /\ players[1].maxHealth >= HP(1)
    /\ players[1].health <= players[1].maxHealth

(* C29: the belt was applied to a player whose maxHealth had already come
   down to 1, three times more, and maxHealth and health are both 1 *)
C29_Witness ==
    /\ lastOp.name = "applyEffect" /\ lastOp.flag /\ calls = 3
    /\ players[1].defense = HP(BASE_DEFENSE) + HP(103)
    /\ players[1].maxHealth = HP(1)
    /\ players[1].health = HP(1)

EnemyCollisionStep == lastOp'.name = "enemyCollision"

(* C30: an overlap of a player and an enemy, both alive, with the player not
   invulnerable, makes the player take the damage of the enemy, takes the
   attackDamage of the player off the health of the enemy (which dies at 0),
   and makes the player invulnerable, and it changes no other player and no
   other enemy; every other overlap of a player and an enemy, that of an
   invulnerable player included, changes no player and no enemy *)
C30_EnemyOverlapGatedOnPlayer ==
    [][EnemyCollisionStep =>
          \E i \in 1..Len(players), e \in 1..Len(enemies) :
              LET p == players[i]
                  en == enemies[e]
                  left == en.health - p.attackDamage
              IN IF p.isAlive /\ en.isAlive /\ ~p.isInvulnerable
                 THEN /\ players' = [players EXCEPT ![i] =
                                        [takeDamage(p, en.damage) EXCEPT !.isInvulnerable = TRUE]]
                      /\ enemies' = [enemies EXCEPT ![e] =
                                        [en EXCEPT !.health = Max(0, left), !.isAlive = left > 0]]
                 ELSE players' = players /\ enemies' = enemies]_vars

(* C30: an overlap has cost player 1 the damage of a Strong enemy and that
   enemy the attackDamage of the player, and the player is invulnerable *)
C30_Witness ==
    /\ lastOp.name = "enemyCollision"
    /\ players[1].isInvulnerable
    /\ players[1].health = HP(INITIAL_HEALTH) - EnemyDamage("Strong")
    /\ enemies[16].health = EnemyHealth("Strong") - HP(BASE_ATTACK_DAMAGE)
    /\ enemies[16].isAlive

(* C31: in a collision of two players that resolves, a player with
   lifestealPercent above 0 that took health off the other and is alive
   afterwards has the health the hit of the other left it with, raised by
   its lifesteal share of the damage it dealt, up to maxHealth *)
C31_LifestealHealsDealer ==
    [][ResolvedCollisionStep =>
          \A i \in 1..2 :
              LET j == 3 - i
                  p == players[i]
                  hit == [p EXCEPT !.health = HealthAfterHit(p, players[j].attackDamage)]
              IN (/\ p.lifestealPercent > 0
                  /\ players'[i].isAlive
                  /\ players'[j].health < players[j].health)
                    => players'[i].health = dealDamage(hit, players[j], p.attackDamage).health]_vars

(* the sequence s is the beginning of the sequence t *)
IsPrefix(s, t) == Len(s) <= Len(t) /\ \A k \in 1..Len(s) : t[k] = s[k]

(* C32: no step of a game (a purchase that fails or succeeds, a frame, a
   death, the reset and the revivals of the next round, the stocking of the
   shop) takes a player away or removes or reorders what its inventory
   holds: the inventory before the step is the beginning of the inventory
   after it *)
C32_InventoryOnlyGrows ==
    [][SameGame =>
          /\ Len(players') >= Len(players)
          /\ \A i \in 1..Len(players) :
                 IsPrefix(players[i].inventory, players'[i].inventory)]_vars

(* C32: player 1 fell in the first round, bought an item in the shop that
   was stocked after it, and was revived for the second round holding it *)
C32_Witness ==
    /\ lastOp.name = "nextRound" /\ lastOp.flag /\ lastOp.from = Shop
    /\ currentRound = 2
    /\ collisions = MaxCollisions - 1
    /\ players[1].isAlive
    /\ Len(players[1].inventory) = 1

TickStep == lastOp'.name = "tick"

(* C33: the passing of time changes the phase only in Playing, only into
   RoundOver, and only through a timer whose whole delay has run in this
   stay in Playing; in RoundOver, Shop and GameOver the timer of the round
   that was left neither counts nor fires: time changes neither the phase
   nor the timer *)
C33_NoStaleTimerFires ==
    [][TickStep =>
          /\ currentGameState' # currentGameState =>
                 /\ currentGameState = Playing /\ currentGameState' = RoundOver
                 /\ TimerRunning(roundTimer)
                 /\ roundTimer.elapsed <= playingMs
                 /\ roundTimer.elapsed + TickMs >= RoundDuration
          /\ currentGameState # Playing =>
                 /\ currentGameState' = currentGameState
                 /\ roundTimer' = roundTimer]_vars

(* C33: the second round ended with the death of player 1 half-way through
   its time; its timer is still pending, and time has passed since *)
C33_Witness ==
    /\ lastOp.name = "tick" /\ lastOp.from \in {RoundOver, GameOver}
    /\ currentRound = 2
    /\ ~players[1].isAlive
    /\ roundTimer.exists /\ roundTimer.pending
    /\ roundTimer.elapsed = TickMs

(* C34: the round timer counts the time of a tick once, and only in Playing;
   it ends the round on the tick with which the time spent in this stay in
   Playing reaches the round duration (with ticks that divide the duration,
   after exactly the duration), whatever time passed in RoundOver or Shop
   before; every other change of the timer's count is a new timer starting
   from 0, and the clock never holds more than one round timer *)
C34_RoundTimeCountedOnceWhilePlaying ==
    [][/\ (TickStep /\ TimerRunning(roundTimer) /\ sceneBooted /\ ~scenePaused) =>
              /\ currentGameState = Playing
              /\ roundTimer.elapsed = playingMs
              /\ roundTimer'.elapsed = Min(roundTimer.elapsed + TickMs, RoundDuration)
       /\ (TickStep /\ currentGameState = Playing /\ currentGameState' = RoundOver) =>
              /\ playingMs < RoundDuration
              /\ playingMs + TickMs >= RoundDuration
              /\ RoundDuration % TickMs = 0 => playingMs + TickMs = RoundDuration
       /\ (TickStep /\ TimerRunning(roundTimer) /\ sceneBooted /\ ~scenePaused
              /\ playingMs + TickMs >= RoundDuration) =>
              currentGameState' = RoundOver
       /\ (~TickStep /\ roundTimer'.elapsed # roundTimer.elapsed) => roundTimer'.elapsed = 0
       /\ roundTimer'.scheduled <= 1
       /\ roundTimer'.scheduled = IF roundTimer'.exists /\ roundTimer'.pending THEN 1 ELSE 0]_vars

(* C34: the second round, begun after a stay in the shop, was ended by its
   timer, which is no longer held by the clock *)
C34_Witness ==
    /\ lastOp.name = "tick" /\ lastOp.flag /\ lastOp.from = Playing
    /\ currentGameState = RoundOver /\ currentRound = 2
    /\ shopInstance # NoShop
    /\ roundTimer.exists /\ ~roundTimer.pending
    /\ roundTimer.elapsed = RoundDuration
    /\ roundTimer.scheduled = 0

PlayerOverlapStep == lastOp'.name = "handlePlayerCollision"

(* C35: an overlap of two players reported while either of them is
   invulnerable changes the health and the gold of neither (it changes no
   player at all); an overlap that resolves leaves both invulnerable, so an
   overlap reported right after one that resolved, with no expiry of the
   invulnerability in between, resolves nothing *)
C35_InvulnerabilityAbsorbsOverlaps ==
    [][PlayerOverlapStep =>
          /\ (players[1].isInvulnerable \/ players[2].isInvulnerable) =>
                 /\ ~lastOp'.flag
                 /\ players'[1].health = players[1].health
                 /\ players'[2].health = players[2].health
                 /\ players'[1].gold = players[1].gold
                 /\ players'[2].gold = players[2].gold
                 /\ players' = players
          /\ lastOp'.flag => players'[1].isInvulnerable /\ players'[2].isInvulnerable
          /\ (lastOp.name = "handlePlayerCollision" /\ lastOp.flag) => ~lastOp'.flag]_vars

(* C35: the overlap of two living players was reported again after it had
   resolved once: both are invulnerable and each has lost the health of one
   hit only *)
C35_Witness ==
    /\ lastOp.name = "handlePlayerCollision" /\ ~lastOp.flag
    /\ collisions = 1
    /\ players[1].isAlive /\ players[2].isAlive
    /\ players[1].isInvulnerable /\ players[2].isInvulnerable
    /\ players[1].health = HP(INITIAL_HEALTH) - HP(BASE_ATTACK_DAMAGE)
    /\ players[2].health = HP(INITIAL_HEALTH) - players[1].attackDamage

(* C36: on every step with which nextRound takes the phase from RoundOver or
   Shop into Playing, every player that is alive after it, a survivor of
   the round before or one that was revived, has the health maxHealth *)
C36_NextRoundHealsToFull ==
    [][(lastOp'.name = "nextRound" /\ EntersPlaying) =>
          /\ currentGameState \in {RoundOver, Shop}
          /\ \A i \in 1..Len(players') :
                 players'[i].isAlive => players'[i].health = players'[i].maxHealth]_vars

(* C36: player 1 fell in the first round, bought a Titan's Belt in the shop,
   and was revived for the second round with all of its lowered maxHealth *)
C36_Witness ==
    /\ lastOp.name = "nextRound" /\ lastOp.flag /\ lastOp.from = Shop
    /\ currentGameState = Playing /\ currentRound = 2
    /\ collisions = MaxCollisions - 1
    /\ players[1].isAlive
    /\ players[1].maxHealth = HP(INITIAL_HEALTH) - HP(15)
    /\ players[1].health = players[1].maxHealth

(* C37: a step changes the phase into Shop only when it is a goToShop
   command given in RoundOver, and a goToShop command given in Playing, in
   Shop, in GameOver or without a game leaves the phase and the round timer
   as they are *)
C37_ShopOnlyFromRoundOver ==
    [][/\ (currentGameState # Shop /\ currentGameState' = Shop) =>
              lastOp'.name = "goToShop" /\ game /\ currentGameState = RoundOver
       /\ (lastOp'.name = "goToShop" /\ ~(game /\ currentGameState = RoundOver)) =>
              UNCHANGED <<currentGameState, roundTimer>>]_vars

(* C38: an overlap with another player or with an enemy, reported while a
   player is invulnerable, leaves the velocity of that player, its
   direction and its speed, as it was *)
C38_NoKnockbackWhileInvulnerable ==
    [][(lastOp'.name \in {"handlePlayerCollision", "handlePlayerEnemyCollision"}) =>
          \A i \in 1..Len(players) :
              players[i].isInvulnerable => players'[i].velocity = players[i].velocity]_vars

BuyAttemptStep == lastOp'.name = "buy"

(* C39: a purchase attempted through the game in Playing, RoundOver or
   GameOver changes no player (its gold, its inventory and its stats stay as
   they are) and no entry of the shop, whatever the index, and is answered
   as a purchase that did not happen *)
C39_NoPurchaseOutsideShop ==
    [][(BuyAttemptStep /\ currentGameState # Shop) =>
          /\ ~lastOp'.flag
          /\ players' = players
          /\ shopInstance' = shopInstance
          /\ currentGameState' = currentGameState]_vars

(* C39: the game is over and its shop holds stock that the surviving
   player could have paid for; a purchase of the first Sword was attempted
   and nothing was sold *)
C39_Witness ==
    /\ lastOp.name = "buy" /\ lastOp.from = GameOver /\ ~lastOp.flag
    /\ currentGameState = GameOver
    /\ shopInstance # NoShop
    /\ lastOp.arg = swordIndex(shopInstance)
    /\ shopInstance[lastOp.arg + 1].quantity > 0
    /\ players[1].gold >= cost("sword")
    /\ players[1].inventory = <<>>

(* the units of entry i sold since the shop was last stocked: the customer
   keeps to one item, the last of its inventory *)
soldSince(i) ==
    LET inv == players[1].inventory
    IN IF purchases > 0 /\ shopInstance[i].item = inv[Len(inv)] THEN purchases ELSE 0

(* C40: whatever is bought and however often the shop is restocked, the
   stock of every entry is at least 0, and the stock of an entry together
   with the units of it sold since the shop was last stocked is the stock
   that entry was stocked with: no more units are sold than were put in *)
C40_StockNeverOversold ==
    /\ \A i \in 1..Len(shopInstance) : shopInstance[i].quantity >= 0
    /\ \E n \in ShopCounts :
          /\ Len(shopInstance) = Len(ShopNew(n))
          /\ \A i \in 1..Len(shopInstance) :
                 /\ shopInstance[i].item = ShopNew(n)[i].item
                 /\ soldSince(i) <= ShopNew(n)[i].quantity
                 /\ shopInstance[i].quantity + soldSince(i) = ShopNew(n)[i].quantity

(* C40: after a restock the customer bought both Swords of a shop stocked
   for one player and, with the gold for a third, was refused it: the stock
   of the entry is 0 *)
C40_Witness ==
    /\ lastOp.name = "buyItem" /\ ~lastOp.flag
    /\ lastOp.arg = swordIndex(shopInstance)
    /\ shopInstance[lastOp.arg + 1].quantity = 0
    /\ purchases = 2
    /\ Len(players[1].inventory) = 3
    /\ held(players[1].inventory, "sword") = 3
    /\ players[1].gold >= cost("sword")
====
